---- MODULE Spec2Model ----
(***************************************************************************)
(* A model of testmozart's coordinator (src/agents/coordinator.py) and of  *)
(* its scenario parser (src/tools/test_design_tools.py).                   *)
(*                                                                         *)
(* Texts are sequences of tokens.  A token is a TLA+ string holding a      *)
(* piece of the real text; the real text is the concatenation of the       *)
(* tokens.  A Python value is a record [t |-> type name, v |-> content].   *)
(***************************************************************************)
EXTENDS Integers, Sequences, FiniteSets, TLC

VARIABLES
    user_content,   \* the initial user message (callback_context.user_content)
    state,          \* SharedState: a function from the keys present to values
    pc,             \* the orchestrator's position: the stage to run next
    running,        \* the set of stages whose unit of work is in progress
    trace,          \* history: <<"start", stage>> and <<"commit", stage>> events
    times_looped,   \* LoopAgent's iteration counter
    loop_state,     \* NOT_STARTED, RUNNING, TERMINATED_EARLY, TERMINATED_BY_LIMIT
    escalate,       \* the exit_loop signal of the sub-agent that ran last
    raised,         \* the exception that ended the run ("" when none)
    output,         \* the Final Reporter's terminal output (<<>> before it)
    verdicts,       \* history: the status each Runner execution wrote
    other_calls,    \* tool calls of the Analyzer that were not the analysis tool
    \* generate_test_scenarios
    nl_output,      \* its argument natural_language_output
    shapes,         \* history: the shapes of the blocks the argument was made of
    scenario_blocks,\* the blocks the argument was split into
    block_index,    \* the position of the for loop in scenario_blocks
    scenarios,      \* the scenarios appended so far
    parse_pc,       \* idle, split, loop, returned, raised
    parse_exc       \* the exception generate_test_scenarios raised ("" when none)

workflow_vars == <<user_content, state, pc, running, trace, times_looped, loop_state,
                   escalate, raised, output, verdicts, other_calls>>
parser_vars == <<nl_output, shapes, scenario_blocks, block_index, scenarios,
                 parse_pc, parse_exc>>
vars == <<workflow_vars, parser_vars>>

(***************************************************************************)
(* Bounds of the model.                                                    *)
(***************************************************************************)
MaxPairs == 2
MaxOtherCalls == 1

(***************************************************************************)
(* Python values.                                                          *)
(***************************************************************************)
PyStr(toks) == [t |-> "str", v |-> toks]
PyNone == [t |-> "None", v |-> <<>>]
PyInt(tok) == [t |-> "int", v |-> <<tok>>]
PyList(items) == [t |-> "list", v |-> items]
\* A dict keeps its (key, value) pairs in insertion order; a later pair with
\* the same key replaces the earlier one's value.
PyDict(pairs) == [t |-> "dict", v |-> pairs]

Truthy(toks) == toks # <<>>

IsWs(tok) == tok \in {" ", "\n"}

(***************************************************************************)
(* json.loads on a token text.  String literals, integers and the          *)
(* punctuation are one token each; anything else is no JSON.               *)
(***************************************************************************)
\* An integer literal of 4301 digits: one more than CPython's limit (4300)
\* for converting a decimal string to int.
BigInt == "99999999999999999999999999999999999999999999999999999999999999999999999999999999999999999999999999999999999999999999999999999999999999999999999999999999999999999999999999999999999999999999999999999999999999999999999999999999999999999999999999999999999999999999999999999999999999999999999999999999999999999999999999999999999999999999999999999999999999999999999999999999999999999999999999999999999999999999999999999999999999999999999999999999999999999999999999999999999999999999999999999999999999999999999999999999999999999999999999999999999999999999999999999999999999999999999999999999999999999999999999999999999999999999999999999999999999999999999999999999999999999999999999999999999999999999999999999999999999999999999999999999999999999999999999999999999999999999999999999999999999999999999999999999999999999999999999999999999999999999999999999999999999999999999999999999999999999999999999999999999999999999999999999999999999999999999999999999999999999999999999999999999999999999999999999999999999999999999999999999999999999999999999999999999999999999999999999999999999999999999999999999999999999999999999999999999999999999999999999999999999999999999999999999999999999999999999999999999999999999999999999999999999999999999999999999999999999999999999999999999999999999999999999999999999999999999999999999999999999999999999999999999999999999999999999999999999999999999999999999999999999999999999999999999999999999999999999999999999999999999999999999999999999999999999999999999999999999999999999999999999999999999999999999999999999999999999999999999999999999999999999999999999999999999999999999999999999999999999999999999999999999999999999999999999999999999999999999999999999999999999999999999999999999999999999999999999999999999999999999999999999999999999999999999999999999999999999999999999999999999999999999999999999999999999999999999999999999999999999999999999999999999999999999999999999999999999999999999999999999999999999999999999999999999999999999999999999999999999999999999999999999999999999999999999999999999999999999999999999999999999999999999999999999999999999999999999999999999999999999999999999999999999999999999999999999999999999999999999999999999999999999999999999999999999999999999999999999999999999999999999999999999999999999999999999999999999999999999999999999999999999999999999999999999999999999999999999999999999999999999999999999999999999999999999999999999999999999999999999999999999999999999999999999999999999999999999999999999999999999999999999999999999999999999999999999999999999999999999999999999999999999999999999999999999999999999999999999999999999999999999999999999999999999999999999999999999999999999999999999999999999999999999999999999999999999999999999999999999999999999999999999999999999999999999999999999999999999999999999999999999999999999999999999999999999999999999999999999999999999999999999999999999999999999999999999999999999999999999999999999999999999999999999999999999999999999999999999999999999999999999999999999999999999999999999999999999999999999999999999999999999999999999999999999999999999999999999999999999999999999999999999999999999999999999999999999999999999999999999999999999999999999999999999999999999999999999999999999999999999999999999999999999999999999999999999999999999999999999999999999999999999999999999999999999999999999999999999999999999999999999999999999999999999999999999999999999999999999999999999999999999999999999999999999999999999999999999999999999999999999999999999999999999999999999999999999999999999999999999999999999999999999999999999999999999999999999999999999999999999999999999999999999999999999999999999999999999999999999999999999999999999999999999999999999999999999999999999999999999999999999999999999999999999999999999999999999999999999999999999999999999999999999999999999999999999999999999999999999999999999999999999999999999999999999999999999999999999999999999999999999999999999999999999999999999999999999999999999999999999999999999999999999999999999999999999999999999999999999999999999999999999999999999999999999999999999999999999999999999999999999999999999999999999999999999999999999999999999999999999999999999999999999999999999999999999999999999999999999999999999999999999999999999999999999999999999999999999999999999999999999999999999999999999999999999999999999999999999999999999999999999999999999999999999999999999999999999"

JsonStrings == {"\"source_code\"", "\"language\"", "\"x\"", "\"go\""}
JsonInts == {"1", BigInt}

\* The str a JSON string literal decodes to.
DecodeString(tok) ==
    CASE tok = "\"source_code\"" -> <<"source_code">>
      [] tok = "\"language\"" -> <<"language">>
      [] tok = "\"x\"" -> <<"x">>
      [] tok = "\"go\"" -> <<"go">>

\* json.decoder.WHITESPACE.match(s, i).end(): the first index at or after i
\* that holds no whitespace.
RECURSIVE SkipWs(_, _)
SkipWs(s, i) ==
    IF i <= Len(s) /\ IsWs(s[i]) THEN SkipWs(s, i + 1) ELSE i

JsonOk(val, end) == [exc |-> "", val |-> val, end |-> end]
JsonErr(exc) == [exc |-> exc, val |-> PyNone, end |-> 0]

\* The scanner: the value that starts at s[i], and the index after it.
RECURSIVE JsonValue(_, _), JsonObject(_, _, _), JsonArray(_, _, _)
JsonValue(s, i) ==
    IF i > Len(s) THEN JsonErr("JSONDecodeError")
    ELSE IF s[i] \in JsonStrings THEN JsonOk(PyStr(DecodeString(s[i])), i + 1)
    ELSE IF s[i] = "{" THEN
        LET j == SkipWs(s, i + 1) IN
        IF j <= Len(s) /\ s[j] = "}" THEN JsonOk(PyDict(<<>>), j + 1)
        ELSE JsonObject(s, j, <<>>)
    ELSE IF s[i] = "[" THEN
        LET j == SkipWs(s, i + 1) IN
        IF j <= Len(s) /\ s[j] = "]" THEN JsonOk(PyList(<<>>), j + 1)
        ELSE JsonArray(s, j, <<>>)
    ELSE IF s[i] = "null" THEN JsonOk(PyNone, i + 1)
    ELSE IF s[i] = BigInt THEN JsonErr("ValueError")
    ELSE IF s[i] \in JsonInts THEN JsonOk(PyInt(s[i]), i + 1)
    ELSE JsonErr("JSONDecodeError")

\* JSONObject after "{" and a first non-"}" token: s[i] must be a key.
JsonObject(s, i, pairs) ==
    IF i > Len(s) \/ s[i] \notin JsonStrings THEN JsonErr("JSONDecodeError")
    ELSE
        LET c == SkipWs(s, i + 1) IN
        IF c > Len(s) \/ s[c] # ":" THEN JsonErr("JSONDecodeError")
        ELSE
            LET r == JsonValue(s, SkipWs(s, c + 1)) IN
            IF r.exc # "" THEN r
            ELSE
                LET more == Append(pairs, <<DecodeString(s[i]), r.val>>)
                    e == SkipWs(s, r.end)
                IN  IF e > Len(s) THEN JsonErr("JSONDecodeError")
                    ELSE IF s[e] = "}" THEN JsonOk(PyDict(more), e + 1)
                    ELSE IF s[e] = "," THEN JsonObject(s, SkipWs(s, e + 1), more)
                    ELSE JsonErr("JSONDecodeError")

\* JSONArray after "[" and a first non-"]" token.
JsonArray(s, i, items) ==
    LET r == JsonValue(s, i) IN
    IF r.exc # "" THEN r
    ELSE
        LET more == Append(items, r.val)
            e == SkipWs(s, r.end)
        IN  IF e > Len(s) THEN JsonErr("JSONDecodeError")
            ELSE IF s[e] = "]" THEN JsonOk(PyList(more), e + 1)
            ELSE IF s[e] = "," THEN JsonArray(s, SkipWs(s, e + 1), more)
            ELSE JsonErr("JSONDecodeError")

\* json.loads: one value, whitespace around it, and nothing after it.
JsonLoads(s) ==
    LET r == JsonValue(s, SkipWs(s, 1)) IN
    IF r.exc # "" THEN r
    ELSE IF SkipWs(s, r.end) # Len(s) + 1 THEN JsonErr("JSONDecodeError")
    ELSE r

\* key in d, and d.get(key, default), for a dict value d.
DictHas(d, key) == \E n \in 1..Len(d.v) : d.v[n][1] = key
DictGet(d, key, default) ==
    IF DictHas(d, key)
    THEN LET last == CHOOSE n \in 1..Len(d.v) :
                        /\ d.v[n][1] = key
                        /\ \A m \in (n + 1)..Len(d.v) : d.v[m][1] # key
         IN  d.v[last][2]
    ELSE default

(***************************************************************************)
(* SharedState: the keys present and their values.                         *)
(***************************************************************************)
EmptyState == [k \in {} |-> PyNone]
Has(st, key) == key \in DOMAIN st
Put(st, key, val) == [k \in DOMAIN st \cup {key} |-> IF k = key THEN val ELSE st[k]]

\* The four keys initialize_state seeds, with their defaults.
DefaultKeys ==
    {"test_results", "static_analysis_report", "test_scenarios", "generated_test_code"}
NotRun == PyDict(<<<< <<"status">>, PyStr(<<"NOT_RUN">>) >>>>)
EmptyReport == PyDict(<<>>)
NoScenarios == PyList(<<>>)
NoCode == PyStr(<<>>)

SeedDefaults(st) ==
    Put(Put(Put(Put(st, "test_results", NotRun),
                "static_analysis_report", EmptyReport),
            "test_scenarios", NoScenarios),
        "generated_test_code", NoCode)

(***************************************************************************)
(* The initial user message: absent, or a list of parts; a part is its     *)
(* text (<<>> for a part whose text is None or empty).                     *)
(***************************************************************************)
NoMessage == [present |-> FALSE, parts |-> <<>>]
Message(parts) == [present |-> TRUE, parts |-> parts]

\* user_content and user_content.parts and user_content.parts[0].text
HasText(uc) == uc.present /\ uc.parts # <<>> /\ Truthy(uc.parts[1])

\* The except clause of initialize_state: the exceptions it handles.
Handled(exc) == exc = "JSONDecodeError"

\* Mutant of NoTextResult: a missing text is raised as an error.
NoTextRaises(st) == [state |-> st, exc |-> "ValueError"]

\* initialize_state without a usable text: the error is recorded and the
\* callback returns.
NoTextResult(st) ==
    [state |-> Put(st, "initialization_error", PyStr(<<"No input content.">>)),
     exc |-> ""]

\* initialize_state: the state it leaves and the exception it raises ("" when
\* it returns).
InitializeState(st, uc) ==
    IF ~HasText(uc) THEN NoTextResult(st)
    ELSE
        LET raw_text == uc.parts[1]
            r == JsonLoads(raw_text)
        IN  IF r.exc # "" /\ ~Handled(r.exc)
            THEN [state |-> st, exc |-> r.exc]
            ELSE
                LET is_json_input ==
                        r.exc = "" /\ r.val.t = "dict" /\ DictHas(r.val, <<"source_code">>)
                    decoded ==
                        IF is_json_input
                        THEN Put(Put(st, "source_code",
                                     DictGet(r.val, <<"source_code">>, PyNone)),
                                 "language",
                                 DictGet(r.val, <<"language">>, PyStr(<<"python">>)))
                        ELSE Put(Put(st, "source_code", PyStr(raw_text)),
                                 "language", PyStr(<<"python">>))
                IN  [state |-> SeedDefaults(decoded), exc |-> ""]

(***************************************************************************)
(* The initial messages of the model.  Tokens that would fuse in the real  *)
(* text (two integers, two words) are never adjacent in them.              *)
(***************************************************************************)
JsonPairs ==
    { <<"\"source_code\"", ":", "\"x\"">>,
      <<"\"source_code\"", ":", " ", "null">>,
      <<"\"language\"", ":", "\"go\"">>,
      <<"\"language\"", ":", "1">>,
      <<"\"x\"", ":", "1">>,
      <<"\"x\"", ":", BigInt>> }

RECURSIVE JsonMembers(_)
\* The member lists of exactly n pairs, joined by commas.
JsonMembers(n) ==
    IF n = 0 THEN {<<>>}
    ELSE IF n = 1 THEN JsonPairs
    ELSE {m \o <<",">> \o p : m \in JsonMembers(n - 1), p \in JsonPairs}

ObjectTexts ==
    UNION {{<<"{">> \o m \o <<"}">> : m \in JsonMembers(n)} : n \in 0..MaxPairs}

OtherTexts ==
    { <<"def f(x): return x+1">>,                       \* raw source code
      <<" ">>,                                          \* whitespace only
      <<"1">>, <<"\"x\"">>, <<"null">>,                 \* JSON, not an object
      <<"[", "\"source_code\"", "]">>,
      <<"[", "{", "\"source_code\"", ":", "\"x\"", "}", "]">>,
      <<BigInt>>,
      <<"{", "\"source_code\"", ":", "\"x\"">>,         \* malformed JSON
      <<"{", "\"source_code\"", "}">>,
      <<"{", "\"source_code\"", ":", "\"x\"", ",", "}">>,
      <<"{", "\"source_code\"", ":", "\"x\"", "}", "\n", "1">>,
      <<"\n", "{", "\"source_code\"", ":", "\"x\"", "}", "\n">> }

Messages ==
    {NoMessage, Message(<<>>), Message(<<<<>>>>), Message(<<<<>>, <<"1">>>>)}
    \cup {Message(<<t>>) : t \in ObjectTexts \cup OtherTexts}

(***************************************************************************)
(* The agents' work.                                                       *)
(***************************************************************************)
\* Mutant of SaveAnalysisToState: the response of every tool is saved.
SaveAnyToolToState(st, tool_name, tool_response) ==
    [state |-> Put(st, "static_analysis_report", tool_response),
     ends |-> tool_name = "analyze_code_structure"]

\* save_analysis_to_state, the Analyzer's after_tool_callback: the state it
\* leaves, and whether it returned a Content (which ends the turn).
SaveAnalysisToState(st, tool_name, tool_response) ==
    IF tool_name = "analyze_code_structure"
    THEN [state |-> Put(st, "static_analysis_report", tool_response), ends |-> TRUE]
    ELSE [state |-> st, ends |-> FALSE]

\* Mutant of OutputKey: the Designer's output_key names the Analyzer's key.
OutputKeyDesignerWrong(stage) ==
    CASE stage = "Designer" -> "static_analysis_report"
      [] stage = "Implementer" -> "generated_test_code"
      [] stage = "Runner" -> "test_results"
      [] stage = "Debugger" -> "generated_test_code"

\* The state key a stage's final response is stored under (output_key); the
\* Analyzer writes through its callback, the Final Reporter has none.
OutputKey(stage) ==
    CASE stage = "Designer" -> "test_scenarios"
      [] stage = "Implementer" -> "generated_test_code"
      [] stage = "Runner" -> "test_results"
      [] stage = "Debugger" -> "generated_test_code"

\* ctx.state.get(key, default)
Get(st, key, default) == IF Has(st, key) THEN st[key] ELSE default

\* The analysis tool is deterministic: its report is a function of the
\* source it is given.
AnalyzeCodeStructure(source_code, language) ==
    PyDict(<<<< <<"source">>, source_code >>, << <<"language">>, language >>>>)

\* The test code after n writes (the Implementer's, then the Debugger's).
Revisions == <<"test_code_rev1", "test_code_rev2", "test_code_rev3",
               "test_code_rev4", "test_code_rev5", "test_code_rev6">>
Code(n) == PyStr(<<Revisions[n]>>)

\* The lines that open the test code: nothing that names the module under
\* test, the import the Debugger's instruction asks for, or that import and
\* a second reference to the module.
ImportLine == <<"from", " ", "source_to_test", " ", "import", " ", "Foo", "\n">>
PatchLine == <<"mock.patch('", "source_to_test", ".helper')", "\n">>
Headers == {<<>>, ImportLine, ImportLine \o PatchLine}
CodeWith(header, n) == PyStr(header \o <<Revisions[n]>>)
HeaderOf(code) == IF code.v = <<>> THEN <<>> ELSE SubSeq(code.v, 1, Len(code.v) - 1)
RevisionOf(code) ==
    IF code.v # <<>> /\ \E n \in 1..Len(Revisions) : code.v[Len(code.v)] = Revisions[n]
    THEN CHOOSE n \in 1..Len(Revisions) : code.v[Len(code.v)] = Revisions[n]
    ELSE 0
\* A rewrite by the Debugger: the next version of the code, same opening lines.
Rewritten(code) == CodeWith(HeaderOf(code), RevisionOf(code) + 1)

\* The Runner's normalized result: the status, and the code it executed.
Results(status, code) ==
    PyDict(<<<< <<"status">>, PyStr(<<status>>) >>, << <<"ran">>, code >>>>)
StatusOf(results) == DictGet(results, <<"status">>, PyNone).v
RanOf(results) == DictGet(results, <<"ran">>, PyNone)

(***************************************************************************)
(* The workflow agents.                                                    *)
(***************************************************************************)
\* generation_pipeline.sub_agents, refinement_loop.sub_agents
GenerationPipeline == <<"Analyzer", "Designer", "Implementer">>
RefinementLoop == <<"Runner", "Debugger">>
\* refinement_loop.max_iterations
MaxIterations == 3

Stages == {"Analyzer", "Designer", "Implementer", "Runner", "Debugger", "Reporter"}

IndexIn(seq, x) == CHOOSE i \in 1..Len(seq) : seq[i] = x
InSeq(seq, x) == \E i \in 1..Len(seq) : seq[i] = x

\* Position after the loop has ended one way or the other: root_agent's next
\* sub-agent, the ResultSummarizer.
LoopExit(how, n) == [pc |-> "Reporter", times_looped |-> n, loop_state |-> how]

\* Mutant of LoopAdvance: the iteration ceiling is off by one.
LoopAdvanceOffByOne(stage, esc, n) ==
    LET i == IndexIn(RefinementLoop, stage) IN
    IF esc THEN LoopExit("TERMINATED_EARLY", n)
    ELSE IF i < Len(RefinementLoop)
    THEN [pc |-> RefinementLoop[i + 1], times_looped |-> n, loop_state |-> "RUNNING"]
    ELSE IF n + 1 <= MaxIterations
    THEN [pc |-> RefinementLoop[1], times_looped |-> n + 1, loop_state |-> "RUNNING"]
    ELSE LoopExit("TERMINATED_BY_LIMIT", n + 1)

\* Mutant of LoopAdvance: the ceiling is checked after the Runner, so the
\* last iteration ends without its Debugger.
LoopAdvanceExitsAfterRunner(stage, esc, n) ==
    LET i == IndexIn(RefinementLoop, stage) IN
    IF esc THEN LoopExit("TERMINATED_EARLY", n)
    ELSE IF i = Len(RefinementLoop)
    THEN [pc |-> RefinementLoop[1], times_looped |-> n + 1, loop_state |-> "RUNNING"]
    ELSE IF n + 1 < MaxIterations
    THEN [pc |-> RefinementLoop[i + 1], times_looped |-> n, loop_state |-> "RUNNING"]
    ELSE LoopExit("TERMINATED_BY_LIMIT", n + 1)

\* LoopAgent after sub-agent `stage` has finished: leave when the sub-agent
\* escalated, else go on to the next sub-agent, and after the last one count
\* the iteration and start over while the count is below max_iterations.
LoopAdvance(stage, esc, n) ==
    LET i == IndexIn(RefinementLoop, stage) IN
    IF esc THEN LoopExit("TERMINATED_EARLY", n)
    ELSE IF i < Len(RefinementLoop)
    THEN [pc |-> RefinementLoop[i + 1], times_looped |-> n, loop_state |-> "RUNNING"]
    ELSE IF n + 1 < MaxIterations
    THEN [pc |-> RefinementLoop[1], times_looped |-> n + 1, loop_state |-> "RUNNING"]
    ELSE LoopExit("TERMINATED_BY_LIMIT", n + 1)

\* Mutant of PipelineAdvance: the Designer is left out of the sequence.
PipelineAdvanceSkipsDesigner(stage) ==
    IF stage = "Analyzer"
    THEN [pc |-> "Implementer", times_looped |-> 0, loop_state |-> "NOT_STARTED"]
    ELSE IF stage = "Designer"
    THEN [pc |-> "Implementer", times_looped |-> 0, loop_state |-> "NOT_STARTED"]
    ELSE [pc |-> RefinementLoop[1], times_looped |-> 0, loop_state |-> "RUNNING"]

\* SequentialAgent (generation_pipeline inside root_agent) after `stage`.
PipelineAdvance(stage) ==
    LET i == IndexIn(GenerationPipeline, stage) IN
    IF i < Len(GenerationPipeline)
    THEN [pc |-> GenerationPipeline[i + 1], times_looped |-> 0,
          loop_state |-> "NOT_STARTED"]
    ELSE [pc |-> RefinementLoop[1], times_looped |-> 0, loop_state |-> "RUNNING"]

\* Where the orchestrator goes when `stage` has finished its turn.
Advance(stage, esc, n, how) ==
    IF InSeq(GenerationPipeline, stage) THEN PipelineAdvance(stage)
    ELSE IF InSeq(RefinementLoop, stage) THEN LoopAdvance(stage, esc, n)
    ELSE [pc |-> "done", times_looped |-> n, loop_state |-> how]

\* A stage's turn ends: its state write is committed and the orchestrator
\* moves on.
Commit(stage, st, esc) ==
    LET a == Advance(stage, esc, times_looped, loop_state) IN
    /\ running = {stage}
    /\ state' = st
    /\ escalate' = esc
    /\ running' = {}
    /\ trace' = Append(trace, <<"commit", stage>>)
    /\ pc' = a.pc
    /\ times_looped' = a.times_looped
    /\ loop_state' = a.loop_state
    /\ verdicts' = IF stage = "Runner"
                   THEN Append(verdicts, StatusOf(st["test_results"])[1])
                   ELSE verdicts
    /\ UNCHANGED <<user_content, raised, parser_vars>>

(***************************************************************************)
(* Actions.                                                                *)
(***************************************************************************)
\* No call of generate_test_scenarios is in progress.
ParserIdle ==
    /\ nl_output = <<>>
    /\ shapes = <<>>
    /\ scenario_blocks = <<>>
    /\ block_index = 0
    /\ scenarios = <<>>
    /\ parse_pc = "idle"
    /\ parse_exc = ""

Init ==
    /\ ParserIdle
    /\ user_content \in Messages
    /\ state = EmptyState
    /\ pc = "init"
    /\ running = {}
    /\ trace = <<>>
    /\ times_looped = 0
    /\ loop_state = "NOT_STARTED"
    /\ escalate = FALSE
    /\ raised = ""
    /\ output = <<>>
    /\ verdicts = <<>>
    /\ other_calls = 0

\* root_agent.before_agent_callback: an exception ends the run; otherwise
\* the first sub-agent is next.
Initialize ==
    /\ pc = "init"
    /\ LET r == InitializeState(state, user_content) IN
        /\ state' = r.state
        /\ raised' = r.exc
        /\ pc' = IF r.exc = "" THEN GenerationPipeline[1] ELSE "aborted"
    /\ trace' = Append(trace, <<"commit", "Initialization">>)
    /\ UNCHANGED <<user_content, running, times_looped, loop_state, escalate,
                   output, verdicts, other_calls, parser_vars>>

\* The orchestrator starts the stage it is at.
CanStart(stage) == pc = stage /\ running = {}

StartStage ==
    \E stage \in Stages :
        /\ CanStart(stage)
        /\ running' = running \cup {stage}
        /\ trace' = Append(trace, <<"start", stage>>)
        /\ UNCHANGED <<user_content, state, pc, times_looped, loop_state,
                       escalate, raised, output, verdicts, other_calls, parser_vars>>

\* The Analyzer calls a tool that is not the analysis tool: the callback
\* writes nothing and the turn goes on.
AnalyzerOtherTool ==
    /\ running = {"Analyzer"}
    /\ other_calls < MaxOtherCalls
    /\ LET r == SaveAnalysisToState(state, "other_tool", PyDict(<<>>)) IN
        /\ ~r.ends
        /\ state' = r.state
    /\ other_calls' = other_calls + 1
    /\ UNCHANGED <<user_content, pc, running, trace, times_looped, loop_state,
                   escalate, raised, output, verdicts, parser_vars>>

\* The Analyzer calls analyze_code_structure; the callback saves the response
\* and ends the turn.
AnalyzerTurn ==
    /\ running = {"Analyzer"}
    /\ LET response == AnalyzeCodeStructure(Get(state, "source_code", PyNone),
                                            Get(state, "language", PyNone))
           r == SaveAnalysisToState(state, "analyze_code_structure", response)
       IN  /\ r.ends
           /\ Commit("Analyzer", r.state, FALSE)
    /\ UNCHANGED <<output, other_calls>>

\* The Designer's final response is stored under its output_key.
DesignerTurn ==
    /\ running = {"Designer"}
    /\ Commit("Designer",
              Put(state, OutputKey("Designer"), PyStr(<<"SCENARIO: s", "\n", "EXPECTED: e">>)),
              FALSE)
    /\ UNCHANGED <<output, other_calls>>

\* The Implementer's final response is stored under its output_key.
ImplementerTurn ==
    /\ running = {"Implementer"}
    /\ \E header \in Headers :
        Commit("Implementer",
               Put(state, OutputKey("Implementer"), CodeWith(header, 1)), FALSE)
    /\ UNCHANGED <<output, other_calls>>

\* The Runner executes the current test code; the normalized result is stored
\* under its output_key.  It has no exit_loop tool.
RunnerTurn ==
    /\ running = {"Runner"}
    /\ \E status \in {"PASS", "FAIL"} :
        Commit("Runner",
               Put(state, OutputKey("Runner"),
                   Results(status, Get(state, "generated_test_code", NoCode))),
               FALSE)
    /\ UNCHANGED <<output, other_calls>>

\* What the Debugger's turn can end with.  On FAIL the instruction fixes the
\* answer: the complete corrected code.  On PASS it only says to call
\* exit_loop and is silent about the answer; the signal is looked at when the
\* turn is over, so the turn ends with no final response or with a remark.
NoResponse == PyNone
Remark == PyStr(<<"All tests passed.">>)
FinalResponses(st) ==
    IF StatusOf(st["test_results"]) = <<"PASS">>
    THEN {NoResponse, Remark}
    ELSE {Rewritten(st["generated_test_code"])}

\* Mutant of DebuggerWork: the Debugger has no exit_loop tool to call.
DebuggerWorkNoExit(st, response) ==
    [state |-> IF response = NoResponse THEN st
               ELSE Put(st, OutputKey("Debugger"), response),
     exit_loop |-> FALSE]

\* Mutant of DebuggerWork: the Debugger's final response is stored nowhere.
DebuggerWorkKeepsCode(st, response) ==
    [state |-> st, exit_loop |-> StatusOf(st["test_results"]) = <<"PASS">>]

\* The Debugger's turn: exit_loop is called on PASS, and a final response,
\* whatever the status, is stored under the output_key.
DebuggerWork(st, response) ==
    [state |-> IF response = NoResponse THEN st
               ELSE Put(st, OutputKey("Debugger"), response),
     exit_loop |-> StatusOf(st["test_results"]) = <<"PASS">>]

DebuggerTurn ==
    /\ running = {"Debugger"}
    /\ \E response \in FinalResponses(state) :
        LET r == DebuggerWork(state, response) IN
        Commit("Debugger", r.state, r.exit_loop)
    /\ UNCHANGED <<output, other_calls>>

\* Step 2 of the Final Reporter's instruction: in a line
\* 'from source_to_test import ...' the module name becomes sample_code.
InImportLine(code, i) ==
    /\ code[i] = "source_to_test"
    /\ i >= 3 /\ code[i - 1] = " " /\ code[i - 2] = "from"
    /\ (i = 3 \/ code[i - 3] = "\n")
    /\ i + 2 <= Len(code) /\ code[i + 1] = " " /\ code[i + 2] = "import"
RewriteImports(code) ==
    [i \in 1..Len(code) |-> IF InImportLine(code, i) THEN "sample_code" ELSE code[i]]

\* Mutant of Report: the test results are never included.
ReportCodeOnly(st) == <<PyStr(RewriteImports(st["generated_test_code"].v))>>

\* The Final Reporter's answer: the modified code alone on PASS, else the
\* modified code and the test results.  It has no output_key.
Report(st) ==
    LET code == PyStr(RewriteImports(st["generated_test_code"].v)) IN
    IF StatusOf(st["test_results"]) = <<"PASS">>
    THEN <<code>>
    ELSE <<code, st["test_results"]>>

ReporterTurn ==
    /\ running = {"Reporter"}
    /\ output' = Report(state)
    /\ Commit("Reporter", state, escalate)
    /\ UNCHANGED other_calls

Next ==
    \/ Initialize
    \/ StartStage
    \/ AnalyzerOtherTool
    \/ AnalyzerTurn
    \/ DesignerTurn
    \/ ImplementerTurn
    \/ RunnerTurn
    \/ DebuggerTurn
    \/ ReporterTurn

Spec == Init /\ [][Next]_vars

(***************************************************************************)
(* generate_test_scenarios (src/tools/test_design_tools.py).               *)
(*                                                                         *)
(* A text is a sequence of tokens whose concatenation is the text.  The    *)
(* tokens are the labels the patterns look for ("Description", "SCENARIO", *)
(* "Scenario", "Expected Outcome", "EXPECTED", "Inputs"), the single       *)
(* characters ":", "-", "*", " ", "\n" and the digits, and phrases that    *)
(* hold none of these and neither start nor end with whitespace.           *)
(***************************************************************************)
MaxBlocks == 2

Digits == <<"1", "2", "3", "4">>
IsDigit(tok) == \E n \in 1..Len(Digits) : Digits[n] = tok

\* The token at s[i]; "" past either end.
At(s, i) == IF i \in 1..Len(s) THEN s[i] ELSE ""

Least(S) == CHOOSE x \in S : \A y \in S : x <= y
Greatest(S) == CHOOSE x \in S : \A y \in S : x >= y

\* re.IGNORECASE: tokens are compared after case folding.
Fold(tok) ==
    CASE tok = "Description" -> "description"
      [] tok \in {"SCENARIO", "Scenario"} -> "scenario"
      [] tok = "Expected Outcome" -> "expected outcome"
      [] tok = "EXPECTED" -> "expected"
      [] tok = "Inputs" -> "inputs"
      [] OTHER -> tok

\* A label of the set (case-insensitive) followed by a colon starts at s[i].
LabelAt(s, i, labels) == Fold(At(s, i)) \in labels /\ At(s, i + 1) = ":"

\* str.strip()
Strip(s) ==
    LET solid == {i \in 1..Len(s) : ~IsWs(s[i])} IN
    IF solid = {} THEN <<>> ELSE SubSeq(s, Least(solid), Greatest(solid))

\* str.split('---'): the pieces between the occurrences of three hyphens,
\* found left to right without overlap.
RECURSIVE SplitDashes(_, _, _, _)
SplitDashes(s, i, piece, pieces) ==
    IF i > Len(s) THEN Append(pieces, piece)
    ELSE IF At(s, i) = "-" /\ At(s, i + 1) = "-" /\ At(s, i + 2) = "-"
         THEN SplitDashes(s, i + 3, <<>>, Append(pieces, piece))
         ELSE SplitDashes(s, i + 1, Append(piece, s[i]), pieces)

RECURSIVE SkipDigits(_, _)
SkipDigits(s, i) == IF IsDigit(At(s, i)) THEN SkipDigits(s, i + 1) ELSE i

\* r'\*\s*Scenario \d+:' matched at s[i]: the index after the match, 0 if none.
\* The pattern is compiled without flags: "Scenario" is matched as written.
MarkerEnd(s, i) ==
    LET q == SkipWs(s, i + 1)
        d == SkipDigits(s, q + 2)
    IN IF /\ At(s, i) = "*"
          /\ At(s, q) = "Scenario"
          /\ At(s, q + 1) = " "
          /\ d > q + 2
          /\ At(s, d) = ":"
       THEN d + 1 ELSE 0

\* re.split(r'\*\s*Scenario \d+:', s)
RECURSIVE SplitMarkers(_, _, _, _)
SplitMarkers(s, i, piece, pieces) ==
    IF i > Len(s) THEN Append(pieces, piece)
    ELSE IF MarkerEnd(s, i) # 0
         THEN SplitMarkers(s, MarkerEnd(s, i), <<>>, Append(pieces, piece))
         ELSE SplitMarkers(s, i + 1, Append(piece, s[i]), pieces)

\* Lines 32-35: split on '---'; with fewer than two pieces, split the
\* unstripped text on the "* Scenario N:" markers.
ScenarioBlocks(natural_language_output) ==
    LET by_dashes == SplitDashes(Strip(natural_language_output), 1, <<>>, <<>>) IN
    IF Len(by_dashes) < 2
    THEN SplitMarkers(natural_language_output, 1, <<>>, <<>>)
    ELSE by_dashes

\* A match object: group is group(1), None when the group took no part.
NoMatch == [matched |-> FALSE, group |-> PyNone]
Match(group) == [matched |-> TRUE, group |-> group]

\* '$' without re.MULTILINE: at the end, or before a newline that ends the text.
EndAt(s, p) == p = Len(s) + 1 \/ (p = Len(s) /\ s[p] = "\n")

\* r'\n\s*-\s*(?:Inputs|Expected Outcome|EXPECTED):' matches at s[p].
NextLabelAt(s, p) ==
    /\ At(s, p) = "\n"
    /\ At(s, SkipWs(s, p + 1)) = "-"
    /\ LabelAt(s, SkipWs(s, SkipWs(s, p + 1) + 1),
               {"inputs", "expected outcome", "expected"})

\* Line 46: re.search(r"(?:Description|SCENARIO):\s*(.*?)(?:\n\s*-\s*(?:Inputs|
\* Expected Outcome|EXPECTED):|$)", block, re.DOTALL | re.IGNORECASE).
\* The leftmost label; the whitespace after its colon; then the shortest
\* text up to a bulleted next label or to '$'.
DescMatchV2(block) ==
    LET starts == {i \in 1..Len(block) : LabelAt(block, i, {"description", "scenario"})} IN
    IF starts = {} THEN NoMatch
    ELSE LET g == SkipWs(block, Least(starts) + 2)
             e == Least({p \in g..Len(block) + 1 :
                            NextLabelAt(block, p) \/ EndAt(block, p)})
         IN Match(PyStr(SubSeq(block, g, e - 1)))

\* Mutant of OutcomeMatchV2: the primary outcome pattern matches nothing.
OutcomeMatchV2Never(block) == NoMatch

\* Line 47: re.search(r"Expected Outcome|EXPECTED:\s*(.*)", block, re.DOTALL |
\* re.IGNORECASE).  The alternation is between the bare words "Expected
\* Outcome", which capture nothing, and "EXPECTED:" with the rest of the block.
OutcomeMatchV2(block) ==
    LET starts == {i \in 1..Len(block) :
                      \/ Fold(block[i]) = "expected outcome"
                      \/ LabelAt(block, i, {"expected"})} IN
    IF starts = {} THEN NoMatch
    ELSE LET i == Least(starts) IN
         IF Fold(block[i]) = "expected outcome" THEN Match(PyNone)
         ELSE Match(PyStr(SubSeq(block, SkipWs(block, i + 2), Len(block))))

\* Line 54: re.search(r"SCENARIO:\s*(.+?)\s*EXPECTED:", block, re.DOTALL |
\* re.IGNORECASE).  At a start i, w whitespace tokens are given to the first
\* \s* (as many as possible) and the group ends before e (as early as possible).
DescV1Ends(block, g) ==
    {e \in g + 1..Len(block) + 1 : LabelAt(block, SkipWs(block, e), {"expected"})}
DescV1Skips(block, i) ==
    {w \in 0..SkipWs(block, i + 2) - (i + 2) : DescV1Ends(block, i + 2 + w) # {}}
DescMatchV1(block) ==
    LET starts == {i \in 1..Len(block) :
                      LabelAt(block, i, {"scenario"}) /\ DescV1Skips(block, i) # {}} IN
    IF starts = {} THEN NoMatch
    ELSE LET g == Least(starts) + 2 + Greatest(DescV1Skips(block, Least(starts)))
         IN Match(PyStr(SubSeq(block, g, Least(DescV1Ends(block, g)) - 1)))

\* Line 55: re.search(r"EXPECTED:\s*(.+)", block, re.DOTALL | re.IGNORECASE).
\* The group is the rest of the block after the whitespace; when only
\* whitespace follows the colon, \s* gives its last character to the group.
OutcomeMatchV1(block) ==
    LET starts == {i \in 1..Len(block) :
                      LabelAt(block, i, {"expected"}) /\ i + 2 <= Len(block)} IN
    IF starts = {} THEN NoMatch
    ELSE LET g == SkipWs(block, Least(starts) + 2) IN
         IF g <= Len(block) THEN Match(PyStr(SubSeq(block, g, Len(block))))
         ELSE Match(PyStr(<<block[Len(block)]>>))

\* Truth value of a field: None and the empty string are false.
FieldTruthy(val) == val.t = "str" /\ Truthy(val.v)

\* Lines 41-58: the fields of one block.  exc is the exception the
\* extraction raises: .strip() on a group that is None is an AttributeError.
Fields(exc, description, expected_outcome) ==
    [exc |-> exc, description |-> description, expected_outcome |-> expected_outcome]
ExtractFields(block) ==
    LET desc_match_v2 == DescMatchV2(block)
        outcome_match_v2 == OutcomeMatchV2(block)
        desc_match_v1 == DescMatchV1(block)
        outcome_match_v1 == OutcomeMatchV1(block)
    IN IF desc_match_v2.matched /\ outcome_match_v2.matched
       THEN IF outcome_match_v2.group = PyNone
            THEN Fields("AttributeError", PyStr(Strip(desc_match_v2.group.v)), PyNone)
            ELSE Fields("", PyStr(Strip(desc_match_v2.group.v)),
                            PyStr(Strip(outcome_match_v2.group.v)))
       ELSE IF desc_match_v1.matched /\ outcome_match_v1.matched
            THEN Fields("", PyStr(Strip(desc_match_v1.group.v)),
                            PyStr(Strip(outcome_match_v1.group.v)))
            ELSE Fields("", PyNone, PyNone)

\* TestScenario(...).model_dump(): two string fields, which validate.
TestScenario(description, expected_outcome) ==
    PyDict(<< << <<"description">>, description >>,
              << <<"expected_outcome">>, expected_outcome >> >>)

\* Lines 37-71: one pass of the for loop over a block.
ProcessBlock(found, block) ==
    IF Strip(block) = <<>> THEN [exc |-> "", scenarios |-> found]
    ELSE LET f == ExtractFields(block) IN
         IF f.exc # "" THEN [exc |-> f.exc, scenarios |-> found]
         ELSE IF FieldTruthy(f.description) /\ FieldTruthy(f.expected_outcome)
              THEN [exc |-> "", scenarios |->
                       Append(found, TestScenario(f.description, f.expected_outcome))]
              ELSE [exc |-> "", scenarios |-> found]

\* Lines 73-75: what the function ends with once the loop is over.
ParseError == "ValueError"
Outcome(found) ==
    IF found = <<>> THEN [exc |-> ParseError, result |-> PyNone]
    ELSE [exc |-> "", result |-> PyList(found)]

\* The whole function: the exception it raises ("" if none) and its result.
RECURSIVE ProcessBlocks(_, _, _)
ProcessBlocks(blocks, n, found) ==
    IF n > Len(blocks) THEN Outcome(found)
    ELSE LET r == ProcessBlock(found, blocks[n]) IN
         IF r.exc # "" THEN [exc |-> r.exc, result |-> PyNone]
         ELSE ProcessBlocks(blocks, n + 1, r.scenarios)
GenerateTestScenarios(natural_language_output) ==
    ProcessBlocks(ScenarioBlocks(natural_language_output), 1, <<>>)

(***************************************************************************)
(* The texts the Designer hands to the tool: up to MaxBlocks blocks, each  *)
(* of a shape, laid out with a separator or with numbered headers.         *)
(***************************************************************************)
Phrases ==
    << [d |-> "adds two positives", e |-> "returns their sum"],
       [d |-> "handles zero", e |-> "returns the other operand"],
       [d |-> "rejects text", e |-> "raises TypeError"] >>
PhraseOf(n) == Phrases[((n - 1) % Len(Phrases)) + 1]
DigitOf(n) == Digits[((n - 1) % Len(Digits)) + 1]

\* The two formats of the docstring (lines 18-20) and their labels.
Formats == {"tags", "bullets"}
DescLabel(format) == IF format = "tags" THEN "SCENARIO" ELSE "Description"
OutcomeLabel(format) == IF format = "tags" THEN "EXPECTED" ELSE "Expected Outcome"

\* A field's line is written with its phrase, with nothing after the colon,
\* or not at all.
FieldKinds == {"full", "empty", "missing"}
BlockShapes ==
    {sh \in [format : Formats, dash : BOOLEAN, d : FieldKinds, e : FieldKinds] :
        \/ sh.d = "full"
        \/ sh.e = "full"
        \/ (sh.d = "missing" /\ sh.e = "missing" /\ sh.format = "tags" /\ ~sh.dash)}

\* Both fields are labelled and non-empty.
WellFormed(sh) == sh.d = "full" /\ sh.e = "full"

Line(dash, label, kind, phrase) ==
    IF kind = "missing" THEN <<>>
    ELSE (IF dash THEN <<"-", " ">> ELSE <<>>) \o <<label, ":">>
         \o (IF kind = "full" THEN <<" ", phrase>> ELSE <<>>)
JoinLines(a, b) ==
    IF a = <<>> THEN b ELSE IF b = <<>> THEN a ELSE a \o <<"\n">> \o b
BlockText(sh, n) ==
    IF sh.d = "missing" /\ sh.e = "missing" THEN <<PhraseOf(n).d>>
    ELSE JoinLines(Line(sh.dash, DescLabel(sh.format), sh.d, PhraseOf(n).d),
                   Line(sh.dash, OutcomeLabel(sh.format), sh.e, PhraseOf(n).e))

Layouts == {"dashes", "markers", "plain markers", "blank line"}
Header(layout, n) ==
    CASE layout = "markers" -> <<"*", " ", "Scenario", " ", DigitOf(n), ":", "\n">>
      [] layout = "plain markers" -> <<"Scenario", " ", DigitOf(n), ":", "\n">>
      [] OTHER -> <<>>
Separator(layout) ==
    CASE layout = "dashes" -> <<"\n", "-", "-", "-", "\n">>
      [] layout = "blank line" -> <<"\n", "\n">>
      [] OTHER -> <<"\n">>
RECURSIVE TextFrom(_, _, _)
TextFrom(layout, shs, n) ==
    IF n > Len(shs) THEN <<>>
    ELSE (IF n > 1 THEN Separator(layout) ELSE <<>>)
         \o Header(layout, n) \o BlockText(shs[n], n) \o TextFrom(layout, shs, n + 1)
Text(layout, shs) == TextFrom(layout, shs, 1)

WorkflowIdle ==
    /\ user_content = NoMessage
    /\ state = EmptyState
    /\ pc = "idle"
    /\ running = {}
    /\ trace = <<>>
    /\ times_looped = 0
    /\ loop_state = "NOT_STARTED"
    /\ escalate = FALSE
    /\ raised = ""
    /\ output = <<>>
    /\ verdicts = <<>>
    /\ other_calls = 0

\* generate_test_scenarios is called with a text.
ParseInit ==
    /\ WorkflowIdle
    /\ \E layout \in Layouts, n \in 1..MaxBlocks :
         \E shs \in [1..n -> BlockShapes] :
            /\ shapes = [layout |-> layout, blocks |-> shs]
            /\ nl_output = Text(layout, shs)
    /\ scenario_blocks = <<>>
    /\ block_index = 0
    /\ scenarios = <<>>
    /\ parse_pc = "split"
    /\ parse_exc = ""

\* Lines 32-35.
SplitBlocks ==
    /\ parse_pc = "split"
    /\ scenario_blocks' = ScenarioBlocks(nl_output)
    /\ block_index' = 1
    /\ parse_pc' = "loop"
    /\ UNCHANGED <<nl_output, shapes, scenarios, parse_exc, workflow_vars>>

\* Lines 37-71: the loop body on the next block; an exception ends the call.
LoopBody ==
    /\ parse_pc = "loop"
    /\ block_index <= Len(scenario_blocks)
    /\ LET r == ProcessBlock(scenarios, scenario_blocks[block_index]) IN
        /\ scenarios' = r.scenarios
        /\ parse_exc' = r.exc
        /\ parse_pc' = IF r.exc = "" THEN "loop" ELSE "raised"
    /\ block_index' = block_index + 1
    /\ UNCHANGED <<nl_output, shapes, scenario_blocks, workflow_vars>>

\* Lines 73-75: after the loop, raise the parse error or return the list.
LoopEnd ==
    /\ parse_pc = "loop"
    /\ block_index > Len(scenario_blocks)
    /\ parse_exc' = Outcome(scenarios).exc
    /\ parse_pc' = IF Outcome(scenarios).exc = "" THEN "returned" ELSE "raised"
    /\ UNCHANGED <<nl_output, shapes, scenario_blocks, block_index, scenarios,
                   workflow_vars>>

ParseNext ==
    \/ SplitBlocks
    \/ LoopBody
    \/ LoopEnd

SpecParse == ParseInit /\ [][ParseNext]_vars

(***************************************************************************)
(* Properties of the orchestration.                                        *)
(***************************************************************************)
Count(kind, stage) == Cardinality({i \in DOMAIN trace : trace[i] = <<kind, stage>>})
AllVerdicts(status) == \A i \in DOMAIN verdicts : verdicts[i] = status
LoopExited == loop_state \in {"TERMINATED_EARLY", "TERMINATED_BY_LIMIT"}

\* C1 (loop ceiling): while every Runner execution has written FAIL, the loop
\* never exits early and never starts a 4th Runner execution, and it has
\* exited, in TERMINATED_BY_LIMIT, exactly when the 3rd Debugger execution is
\* over: after 3 Runner and 3 Debugger executions and 3 counted iterations.
C1_LoopCeiling ==
    AllVerdicts("FAIL") =>
        /\ Count("start", "Runner") <= 3
        /\ loop_state # "TERMINATED_EARLY"
        /\ (loop_state = "TERMINATED_BY_LIMIT") <=> (Count("commit", "Debugger") = 3)
        /\ loop_state = "TERMINATED_BY_LIMIT" =>
            /\ Count("commit", "Runner") = 3
            /\ Count("start", "Runner") = 3
            /\ Count("start", "Debugger") = 3
            /\ times_looped = 3
            /\ pc \in {"Reporter", "done"}

C1_Witness ==
    /\ verdicts = <<"FAIL", "FAIL", "FAIL">>
    /\ loop_state = "TERMINATED_BY_LIMIT"
    /\ pc = "done"

\* C2 (loop termination): while every Runner execution has written PASS, the
\* Runner has started at most once and the loop never ends by the limit; once
\* the Debugger has run, the loop has ended in TERMINATED_EARLY on the exit
\* signal after that one Runner and one Debugger execution.
C2_LoopTermination ==
    AllVerdicts("PASS") =>
        /\ Count("start", "Runner") <= 1
        /\ loop_state # "TERMINATED_BY_LIMIT"
        /\ (loop_state = "TERMINATED_EARLY") <=> (Count("commit", "Debugger") = 1)
        /\ loop_state = "TERMINATED_EARLY" =>
            /\ escalate
            /\ Count("commit", "Runner") = 1
            /\ Count("start", "Debugger") = 1
            /\ pc \in {"Reporter", "done"}

C2_Witness ==
    /\ verdicts = <<"PASS">>
    /\ loop_state = "TERMINATED_EARLY"
    /\ pc = "done"

\* The events of one stage, and of a run with k loop iterations.
StageEvents(stage) == <<<<"start", stage>>, <<"commit", stage>>>>
RECURSIVE Iterations(_)
Iterations(k) ==
    IF k = 0 THEN <<>>
    ELSE Iterations(k - 1) \o StageEvents("Runner") \o StageEvents("Debugger")
FullRun(k) ==
    <<<<"commit", "Initialization">>>>
    \o StageEvents("Analyzer") \o StageEvents("Designer") \o StageEvents("Implementer")
    \o Iterations(k) \o StageEvents("Reporter")
IsPrefix(s, t) == Len(s) <= Len(t) /\ SubSeq(t, 1, Len(s)) = s

\* C3 (orchestration order): what has run so far is always the beginning of
\* Initialization, Analyzer, Designer, Implementer, 1 to 3 rounds of Runner
\* and Debugger, Final Reporter, each stage starting only after the one
\* before it has committed; at most one stage is executing; and a run that
\* has completed has executed all of it, the Final Reporter once.
C3_OrchestrationOrder ==
    /\ Cardinality(running) <= 1
    /\ \E k \in 1..3 : IsPrefix(trace, FullRun(k))
    /\ \A stage \in Stages :
          (stage \in running) <=>
              (trace # <<>> /\ trace[Len(trace)] = <<"start", stage>>)
    /\ pc = "done" =>
          /\ \E k \in 1..3 : trace = FullRun(k)
          /\ Count("commit", "Reporter") = 1
          /\ output # <<>>

C3_Witness ==
    /\ pc = "done"
    /\ trace = FullRun(2)

\* C4 (Debugger on PASS), as claimed: a Debugger turn on a PASS result
\* signals the exit and leaves generated_test_code as it was, so from then on
\* the code in the state, and the code the Final Reporter emits, is the code
\* the Runner executed in that iteration.
C4_PassLeavesCode ==
    /\ (/\ trace # <<>>
        /\ trace[Len(trace)] = <<"commit", "Debugger">>
        /\ StatusOf(state["test_results"]) = <<"PASS">>)
       => (escalate /\ loop_state = "TERMINATED_EARLY")
    /\ loop_state = "TERMINATED_EARLY" =>
        /\ state["generated_test_code"] = RanOf(state["test_results"])
        /\ output # <<>> =>
              output[1] = PyStr(RewriteImports(RanOf(state["test_results"]).v))

\* What does hold of that turn: the exit is signalled, and the code is the
\* code the Runner executed unless the turn ended with a final response,
\* which is then the code in the state and the code emitted.
PassSignalsExit ==
    /\ (/\ trace # <<>>
        /\ trace[Len(trace)] = <<"commit", "Debugger">>
        /\ StatusOf(state["test_results"]) = <<"PASS">>)
       => (escalate /\ loop_state = "TERMINATED_EARLY")
    /\ loop_state = "TERMINATED_EARLY" =>
        /\ state["generated_test_code"] \in {RanOf(state["test_results"]), Remark}
        /\ output # <<>> =>
              output[1] = PyStr(RewriteImports(state["generated_test_code"].v))

\* C5 (defaults invariant), as claimed: whenever a stage is about to run or is
\* running, the four seeded keys are present in the state.
C5_DefaultsPresent ==
    pc \in Stages => DefaultKeys \subseteq DOMAIN state

\* C6 (initialization decoding), as claimed: for a non-empty text the
\* callback raises nothing and records no error; a JSON object with a
\* source_code field gives that field and its language field (or python),
\* every other text gives the raw text and python.
C6_InitDecoding ==
    (pc # "init" /\ HasText(user_content)) =>
        /\ raised = ""
        /\ ~Has(state, "initialization_error")
        /\ LET text == user_content.parts[1]
               r == JsonLoads(text)
           IN  IF r.exc = "" /\ r.val.t = "dict" /\ DictHas(r.val, <<"source_code">>)
               THEN /\ state["source_code"] = DictGet(r.val, <<"source_code">>, PyNone)
                    /\ state["language"] =
                          DictGet(r.val, <<"language">>, PyStr(<<"python">>))
               ELSE /\ state["source_code"] = PyStr(text)
                    /\ state["language"] = PyStr(<<"python">>)

\* C7 (fail-soft initialization): a message without usable text leaves
\* initialization_error in the state and raises nothing; the run is never
\* aborted and never stuck before the Final Reporter has produced its output:
\* it goes through the pipeline and the loop in order (every step extends
\* the bounded history, so the run reaches that output).
C7_FailSoft ==
    ~HasText(user_content) =>
        /\ pc # "init" => (Has(state, "initialization_error") /\ raised = "")
        /\ pc # "aborted"
        /\ \E k \in 1..3 : IsPrefix(trace, FullRun(k))
        /\ \/ (pc = "done" /\ output # <<>> /\ \E k \in 1..3 : trace = FullRun(k))
           \/ (pc # "done" /\ ENABLED Next)

C7_Witness ==
    /\ ~HasText(user_content)
    /\ Has(state, "initialization_error")
    /\ pc = "done"
    /\ output # <<>>

\* The declared writers of each key after initialization.
Writers(key) ==
    CASE key = "static_analysis_report" -> {"Analyzer"}
      [] key = "test_scenarios" -> {"Designer"}
      [] key = "generated_test_code" -> {"Implementer", "Debugger"}
      [] key = "test_results" -> {"Runner"}
      [] OTHER -> {}
StateKeys == DefaultKeys \cup {"source_code", "language", "initialization_error"}
Changed(key) ==
    \/ Has(state, key) # Has(state', key)
    \/ Has(state, key) /\ Has(state', key) /\ state[key] # state'[key]

\* C8 (state ownership): after initialization a step changes a key only if
\* it is the turn of one of the key's declared writers; source_code and
\* language have none and keep their initial values.
C8_Ownership ==
    [][pc # "init" =>
         \A key \in StateKeys : Changed(key) => (running \cap Writers(key) # {})]_vars

C8_Witness ==
    /\ pc = "done"
    /\ times_looped = 3
    /\ Has(state, "source_code")
    /\ state["source_code"] = PyStr(<<"x">>)
    /\ state["generated_test_code"] = Code(4)

(***************************************************************************)
(* Properties of generate_test_scenarios.                                  *)
(***************************************************************************)
ParseOver == parse_pc \in {"returned", "raised"}
Returned == parse_pc = "returned"
Raised(exc) == parse_pc = "raised" /\ parse_exc = exc

\* The text is laid out with a delimiter the parser splits on, so that its
\* blocks are the blocks it was made of.
Delimited == Len(shapes.blocks) = 1 \/ shapes.layout \in {"dashes", "markers"}
SomeWellFormed == \E n \in DOMAIN shapes.blocks : WellFormed(shapes.blocks[n])

\* C9 (scenario parser totality): once the call is over, a text with at least
\* one well-formed block (both fields labelled and non-empty, in either
\* format) has made it return a non-empty list, and a text with no well-formed
\* block has made it raise the parse error (ValueError) and nothing else.
C9_ParserTotality ==
    (ParseOver /\ Delimited) =>
        IF SomeWellFormed
        THEN Returned /\ scenarios # <<>>
        ELSE Raised(ParseError)

\* The block 'SCENARIO: <d>' newline 'EXPECTED: <e>'.
TagsBlock == [format |-> "tags", dash |-> FALSE, d |-> "full", e |-> "full"]
TwoTagsBlocks ==
    /\ shapes.layout = "dashes"
    /\ shapes.blocks = <<TagsBlock, TagsBlock>>
ScenarioOf(n) == TestScenario(PyStr(<<PhraseOf(n).d>>), PyStr(<<PhraseOf(n).e>>))

\* C10 (scenario parsing example): the text of two 'SCENARIO: <d>' newline
\* 'EXPECTED: <e>' blocks separated by '---' (the spec's input, with "adds two
\* positives" and "handles zero") parses to exactly two scenarios, in order,
\* whose description is exactly <d> and whose expected_outcome is exactly <e>.
C10_ParsingExample ==
    (ParseOver /\ TwoTagsBlocks) =>
        /\ Returned
        /\ scenarios = <<ScenarioOf(1), ScenarioOf(2)>>

\* The well-formed blocks of the text, in order, and the expected outcomes
\* written in them.
IsWellFormedAt(n) == WellFormed(shapes.blocks[n])
WellFormedBlocks == SelectSeq([n \in 1..Len(shapes.blocks) |-> n], IsWellFormedAt)
WellFormedOutcomes ==
    [i \in 1..Len(WellFormedBlocks) |-> PyStr(<<PhraseOf(WellFormedBlocks[i]).e>>)]
FieldOf(scenario, key) == DictGet(scenario, <<key>>, PyNone)
ReturnedOutcomes ==
    [i \in 1..Len(scenarios) |-> FieldOf(scenarios[i], "expected_outcome")]

\* C15 (parser partial success), as claimed: for a text with at least one
\* well-formed block the call raises nothing; the blocks that are not
\* well-formed (no match, an empty field, 'Expected Outcome' without a
\* usable value) are skipped and the scenarios of the well-formed blocks are
\* returned, one for each, in order.
C15_PartialSuccess ==
    (ParseOver /\ Delimited /\ SomeWellFormed) =>
        /\ Returned
        /\ ReturnedOutcomes = WellFormedOutcomes

NonBlankBlocks ==
    Cardinality({n \in 1..Len(scenario_blocks) : Strip(scenario_blocks[n]) # <<>>})

\* C17 (scenario validity), as claimed: every returned scenario has a
\* non-empty, trimmed description and a non-empty expected_outcome; the
\* returned scenarios are those of the blocks with both fields present and
\* non-empty, in the order of the blocks (a block with a missing or empty
\* field gives none); and they are no more than the non-blank blocks.
C17_ScenarioValidity ==
    (Returned /\ Delimited) =>
        /\ \A i \in 1..Len(scenarios) :
              /\ FieldTruthy(FieldOf(scenarios[i], "description"))
              /\ Strip(FieldOf(scenarios[i], "description").v)
                    = FieldOf(scenarios[i], "description").v
              /\ FieldTruthy(FieldOf(scenarios[i], "expected_outcome"))
        /\ ReturnedOutcomes = WellFormedOutcomes
        /\ Len(scenarios) <= NonBlankBlocks

\* The parts of C17 that do not depend on which blocks give a scenario.
ScenariosNonEmpty ==
    /\ \A i \in 1..Len(scenarios) :
          /\ FieldTruthy(FieldOf(scenarios[i], "description"))
          /\ FieldTruthy(FieldOf(scenarios[i], "expected_outcome"))
    /\ parse_pc \in {"loop", "returned", "raised"} => Len(scenarios) <= NonBlankBlocks

AllWellFormed == \A n \in DOMAIN shapes.blocks : WellFormed(shapes.blocks[n])

\* C18 (secondary block splitting), as claimed: a text without '---' in
\* which each of k 'Scenario N:' markers, written with or without a leading
\* asterisk, is followed by a well-formed block parses to k scenarios.
C18_SecondarySplit ==
    (ParseOver /\ shapes.layout \in {"markers", "plain markers"} /\ AllWellFormed) =>
        /\ Returned
        /\ Len(scenarios) = Len(shapes.blocks)

PrimaryMatches(block) == DescMatchV2(block).matched /\ OutcomeMatchV2(block).matched
LegacyMatches(block) == DescMatchV1(block).matched /\ OutcomeMatchV1(block).matched
\* The scenario the primary pattern pair alone gives for a block.
PrimaryScenario(block) ==
    TestScenario(PyStr(Strip(DescMatchV2(block).group.v)),
                 PyStr(Strip(OutcomeMatchV2(block).group.v)))

\* C20 (extraction precedence): in every pass of the loop, a block that the
\* legacy SCENARIO/EXPECTED patterns match is also matched by the primary
\* pattern pair, so the legacy branch, taken only when the primary pair
\* fails, finds nothing there; and a scenario that the pass appends is the
\* one the primary patterns alone extract from the block.
C20_ExtractionPrecedence ==
    [][(parse_pc = "loop" /\ block_index' = block_index + 1) =>
          LET block == scenario_blocks[block_index] IN
          /\ LegacyMatches(block) => PrimaryMatches(block)
          /\ scenarios' # scenarios =>
                /\ PrimaryMatches(block)
                /\ OutcomeMatchV2(block).group # PyNone
                /\ scenarios' = Append(scenarios, PrimaryScenario(block))]_vars

C20_Witness ==
    /\ Returned
    /\ Len(scenarios) = 2
    /\ \A n \in 1..Len(scenario_blocks) : LegacyMatches(scenario_blocks[n])

(***************************************************************************)
(* Further properties of the orchestration.                                *)
(***************************************************************************)
FinalStatus == StatusOf(state["test_results"])
EmittedCode == PyStr(RewriteImports(state["generated_test_code"].v))

\* C11 (Final Reporter output shape): the terminal output of a completed run
\* is the import-rewritten generated_test_code alone when the final
\* test_results.status is PASS, and that code followed by the test_results
\* object otherwise; a loop that ended in TERMINATED_BY_LIMIT leaves a status
\* other than PASS, so its run ends with the dual output.
C11_ReportShape ==
    /\ pc = "done" =>
          IF FinalStatus = <<"PASS">>
          THEN output = <<EmittedCode>>
          ELSE output = <<EmittedCode, state["test_results"]>>
    /\ loop_state = "TERMINATED_BY_LIMIT" =>
          /\ FinalStatus # <<"PASS">>
          /\ pc = "done" => Len(output) = 2

C11_Witness ==
    /\ pc = "done"
    /\ loop_state = "TERMINATED_BY_LIMIT"
    /\ output = <<EmittedCode, state["test_results"]>>
    /\ FinalStatus = <<"FAIL">>

\* The report the analysis tool gives for the source held in a state.
ReportFor(st) ==
    AnalyzeCodeStructure(Get(st, "source_code", PyNone), Get(st, "language", PyNone))
AnalyzerDone == Count("commit", "Analyzer") = 1

\* C13 (Analyzer short-circuit and idempotence): a call of another tool
\* leaves static_analysis_report as it was and the Analyzer running; the step
\* in which analyze_code_structure returns ends the Analyzer's turn with
\* static_analysis_report equal to the tool's response for the state's
\* (source_code, language), and saving the response for the same input once
\* more gives the same state; after the turn no step alters the report.
C13_AnalyzerShortCircuit ==
    [][/\ (running = {"Analyzer"} /\ other_calls' # other_calls) =>
            (~Changed("static_analysis_report") /\ running' = running)
       /\ (running = {"Analyzer"} /\ running' = {}) =>
            /\ Has(state', "static_analysis_report")
            /\ state'["static_analysis_report"] = ReportFor(state)
            /\ pc' = "Designer"
            /\ SaveAnalysisToState(state', "analyze_code_structure",
                                   ReportFor(state')).state = state'
       /\ AnalyzerDone => ~Changed("static_analysis_report")]_vars

C13_Witness ==
    /\ pc = "done"
    /\ other_calls = 1
    /\ Has(state, "source_code")
    /\ state["source_code"] = PyStr(<<"x">>)
    /\ state["static_analysis_report"] = ReportFor(state)
    /\ state["static_analysis_report"] # EmptyReport

HasImportLine(code) == \E i \in 1..Len(code) : InImportLine(code, i)
Occurs(code, tok) == \E i \in 1..Len(code) : code[i] = tok

\* C14 (Final Reporter import rewrite), as claimed: when the
\* generated_test_code the Final Reporter read contains a line
\* 'from source_to_test import X', the code it emitted has 'from sample_code
\* import X' in its place, has no occurrence of source_to_test left, and is
\* the same code everywhere else.
C14_ImportRewrite ==
    (pc = "done" /\ HasImportLine(state["generated_test_code"].v)) =>
        LET code == state["generated_test_code"].v
            emitted == output[1].v
        IN  /\ Len(emitted) = Len(code)
            /\ \A i \in 1..Len(code) :
                  IF InImportLine(code, i) THEN emitted[i] = "sample_code"
                  ELSE code[i] # "source_to_test" => emitted[i] = code[i]
            /\ ~Occurs(emitted, "source_to_test")

\* What the rewrite does achieve: the import lines are rewritten, and nothing
\* is left when the import lines are the only places that name the module.
ImportLinesRewritten ==
    (pc = "done" /\ HasImportLine(state["generated_test_code"].v)) =>
        LET code == state["generated_test_code"].v
            emitted == output[1].v
        IN  /\ Len(emitted) = Len(code)
            /\ \A i \in 1..Len(code) :
                  emitted[i] = IF InImportLine(code, i) THEN "sample_code" ELSE code[i]
            /\ (\A i \in 1..Len(code) :
                   code[i] = "source_to_test" => InImportLine(code, i))
               => ~Occurs(emitted, "source_to_test")

LastEvent == IF trace = <<>> THEN <<"none", "none">> ELSE trace[Len(trace)]

\* C16 (loop iteration structure): the Debugger runs only after the Runner
\* of the same iteration has committed a result, never on the NOT_RUN
\* default; a Runner turn never raises the exit signal and is always
\* followed by the Debugger; the loop exits only in the step that ends a
\* Debugger turn; and once it has exited, the Runner and the Debugger have
\* run equally often, between 1 and 3 times.
C16_IterationStructure ==
    /\ [](/\ running = {"Debugger"} =>
              /\ Count("commit", "Runner") = Count("start", "Debugger")
              /\ Has(state, "test_results")
              /\ state["test_results"] # NotRun
          /\ running = {"Runner"} =>
              Count("commit", "Debugger") = Count("commit", "Runner")
          /\ LastEvent = <<"commit", "Runner">> =>
              (~escalate /\ loop_state = "RUNNING" /\ pc = "Debugger")
          /\ LoopExited =>
              /\ Count("commit", "Runner") = Count("commit", "Debugger")
              /\ Count("start", "Runner") = Count("commit", "Runner")
              /\ Count("start", "Debugger") = Count("commit", "Debugger")
              /\ Count("commit", "Runner") \in 1..3)
    /\ [][(~LoopExited /\ LoopExited') =>
             (running = {"Debugger"} /\ running' = {})]_vars

C16_Witness ==
    /\ pc = "done"
    /\ loop_state = "TERMINATED_EARLY"
    /\ verdicts = <<"FAIL", "FAIL", "PASS">>
    /\ Count("commit", "Runner") = 3
    /\ Count("commit", "Debugger") = 3

\* C19 (stale result at the ceiling): every Runner execution ran the version
\* of the code that was current then, the k-th execution version k; when
\* the loop has ended in TERMINATED_BY_LIMIT, generated_test_code is the
\* version after the Debugger's third rewrite, one later than the version
\* the last (third) Runner execution ran, so it was never executed, and
\* test_results, which the Final Reporter emits with it, is the result of
\* the version before.
C19_StaleResultAtCeiling ==
    /\ Count("commit", "Runner") >= 1 =>
          RevisionOf(RanOf(state["test_results"])) = Count("commit", "Runner")
    /\ loop_state = "TERMINATED_BY_LIMIT" =>
          LET code == state["generated_test_code"]
              ran == RanOf(state["test_results"])
          IN  /\ Count("commit", "Runner") = MaxIterations
              /\ RevisionOf(code) = MaxIterations + 1
              /\ RevisionOf(ran) = MaxIterations
              /\ HeaderOf(ran) = HeaderOf(code)
              /\ code # ran
              /\ pc = "done" => output = <<EmittedCode, state["test_results"]>>

C19_Witness ==
    /\ pc = "done"
    /\ loop_state = "TERMINATED_BY_LIMIT"
    /\ state["generated_test_code"] = CodeWith(ImportLine, 4)
    /\ RanOf(state["test_results"]) = CodeWith(ImportLine, 3)
    /\ Len(output) = 2

(***************************************************************************)
(* The workflow with collaborators that can raise.                         *)
(***************************************************************************)
\* The stages that call a collaborator: the analysis tool, the scenario
\* parser, the execution and the normalization tool.
ToolStages == {"Analyzer", "Designer", "Runner"}
\* An exception none of the code expects.
Unrecognized == "RuntimeError"

\* A collaborator of the running stage raises.  No agent or callback of
\* coordinator.py and no loop of main.py catches it: the exception leaves
\* run_async and the run is over, with the state as it was.
CollaboratorRaises ==
    /\ \E stage \in ToolStages : running = {stage}
    /\ raised' = Unrecognized
    /\ pc' = "aborted"
    /\ running' = {}
    /\ UNCHANGED <<user_content, state, trace, times_looped, loop_state, escalate,
                   output, verdicts, other_calls, parser_vars>>

FaultyNext ==
    \/ Next
    \/ CollaboratorRaises

SpecFaults == Init /\ [][FaultyNext]_vars

\* C12 (stage-boundary exception conversion), as claimed: once a collaborator
\* has raised an unrecognized exception, test_results holds a FAIL-shaped
\* value and the run has not been ended by the exception: it goes on to the
\* Debugger and the Final Reporter.
C12_ExceptionConversion ==
    raised = Unrecognized =>
        /\ pc # "aborted"
        /\ Has(state, "test_results")
        /\ StatusOf(state["test_results"]) = <<"FAIL">>

====
